---------------------------- MODULE Spec2Model ----------------------------
(***************************************************************************)
(* Verification model of the spicier numerical core:                       *)
(*   - ConvergenceTracker   (spicier-batched-sweep/src/convergence.rs)     *)
(*   - solve_transient_adaptive (spicier-solver/src/transient/solver.rs)   *)
(*   - FaerSparseCachedBatchedSolver and the other batched backends        *)
(*   - restarted GMRES      (spicier-solver/src/gmres/*.rs)                *)
(*   - fixed-step transient drivers and TransientResult (transient/*.rs)   *)
(*   - compact_active / expand_active (convergence.rs)                     *)
(* Each subsystem has its own specification over the shared variables; the *)
(* variables of the other subsystems stay at their idle values.            *)
(***************************************************************************)
EXTENDS Integers, Sequences, FiniteSets, TLC

VARIABLES
    \* ConvergenceTracker fields
    status, iterations, max_iterations, active_count,
    \* the last tracker operation applied: <<name, index>>
    last_op,
    \* solve_transient_adaptive: position, locals t and h, its parameters,
    \* the recorded times, the counters of the result, how the call ended
    \* and what the last loop iteration computed; the histories of the
    \* reactive elements and the copies saved for a rollback
    a_pc, t, h, params, points, total_steps, rejected_steps, a_result, last_step,
    caps, inds, saved_cap_states, saved_ind_states, stamp_times,
    \* FaerSparseCachedBatchedSolver: the RwLock-protected cache, every
    \* thread's solve_batch call in progress, and the number of times a call
    \* has written the cache since the cache was last empty
    cached, calls, installs,
    \* solve_gmres_*: position, the GmresConfig and the operator's dimension,
    \* the locals total_iter, the restart cycle and k, the number of Arnoldi
    \* iterations carried out, and the returned result; for every column of
    \* the cycle's Hessenberg matrix whether the Givens rotations were applied
    \* to it, the outcome of the last test of the rotated estimate and of the
    \* last explicitly computed residual, and the return statement taken
    g_pc, config, dim, total_iter, restart_cycle, k, arnoldi, g_result,
    rotated, estimate_small, explicit_small, g_exit, rhs,
    \* one solve_batch call on a batched backend: position, the call (backend,
    \* n, batch_size, the systems, whether the buffer lengths fit, whether the
    \* backend's allocations and buffer mappings succeed), the loop
    \* index, the two vectors of the result and how the call ended
    b_pc, call, b_i, b_solutions, singular_indices, b_result,
    \* solve_batched_sweep_gpu: position, the inputs of the call (the solver
    \* the selector creates, the dispatch configuration, the cohort), the
    \* local use_gpu and the returned result
    s_pc, sweep, use_gpu, sweep_result,
    \* solve_transient and solve_transient_dispatched: position, the call
    \* (entry point, integration method, number of steps, whether GMRES is
    \* the linear solver), the steps completed, the recorded points, the
    \* number of linear solves made, what the last pass of the step loop did
    \* and what its solves yielded, and the returned result
    f_pc, f_call, f_step, f_points, f_solves, f_ops, f_outcomes, f_result,
    \* a stored transient result and one call on it
    r_pc, r_points, r_step, r_call, r_answer, s_t, s_passes, sampled_points,
    \* one compact_active / expand_active round trip
    compact_pc, compact_call, compacted_data, expanded_data

trackerVars == <<status, iterations, max_iterations, active_count, last_op>>

adaptiveVars == <<a_pc, t, h, params, points, total_steps, rejected_steps,
                  a_result, last_step, caps, inds, saved_cap_states,
                  saved_ind_states, stamp_times>>

cacheVars == <<cached, calls, installs>>

gmresVars == <<g_pc, config, dim, total_iter, restart_cycle, k, arnoldi, g_result,
               rotated, estimate_small, explicit_small, g_exit, rhs>>

batchVars == <<b_pc, call, b_i, b_solutions, singular_indices, b_result>>

sweepVars == <<s_pc, sweep, use_gpu, sweep_result>>

fixedVars == <<f_pc, f_call, f_step, f_points, f_solves, f_ops, f_outcomes, f_result>>

resultVars == <<r_pc, r_points, r_step, r_call, r_answer, s_t, s_passes, sampled_points>>

compactVars == <<compact_pc, compact_call, compacted_data, expanded_data>>

vars == <<status, iterations, max_iterations, active_count, last_op,
          a_pc, t, h, params, points, total_steps, rejected_steps,
          a_result, last_step, caps, inds, saved_cap_states,
          saved_ind_states, stamp_times, cached, calls, installs,
          g_pc, config, dim, total_iter, restart_cycle, k, arnoldi, g_result,
          rotated, estimate_small, explicit_small, g_exit, rhs,
          b_pc, call, b_i, b_solutions, singular_indices, b_result,
          s_pc, sweep, use_gpu, sweep_result,
          f_pc, f_call, f_step, f_points, f_solves, f_ops, f_outcomes, f_result,
          r_pc, r_points, r_step, r_call, r_answer, s_t, s_passes, sampled_points,
          compact_pc, compact_call, compacted_data, expanded_data>>

nonTrackerVars == <<adaptiveVars, cacheVars, gmresVars, batchVars, sweepVars, fixedVars, resultVars, compactVars>>

nonAdaptiveVars == <<trackerVars, cacheVars, gmresVars, batchVars, sweepVars, fixedVars, resultVars, compactVars>>

nonCacheVars == <<trackerVars, adaptiveVars, gmresVars, batchVars, sweepVars, fixedVars, resultVars, compactVars>>

nonGmresVars == <<trackerVars, adaptiveVars, cacheVars, batchVars, sweepVars, fixedVars, resultVars, compactVars>>

nonBatchVars == <<trackerVars, adaptiveVars, cacheVars, gmresVars, sweepVars, fixedVars, resultVars, compactVars>>

nonSweepVars == <<trackerVars, adaptiveVars, cacheVars, gmresVars, batchVars, fixedVars, resultVars, compactVars>>

nonFixedVars == <<trackerVars, adaptiveVars, cacheVars, gmresVars, batchVars, sweepVars, resultVars, compactVars>>

nonResultVars == <<trackerVars, adaptiveVars, cacheVars, gmresVars, batchVars, sweepVars, fixedVars, compactVars>>

nonCompactVars == <<trackerVars, adaptiveVars, cacheVars, gmresVars, batchVars, sweepVars, fixedVars, resultVars>>

(***************************************************************************)
(* Bounds                                                                  *)
(***************************************************************************)
\* Number of sweep points of the tracked cohort (batch_size).
BatchSize == 2
\* Cap on a point's iteration counter and on the iteration limit.
MaxCount == 2
\* Largest stop time of an adaptive transient run, in time ticks.
MaxTstop == 10
\* Bits of the significand of a floating-point time value.
MantissaBits == 3
\* Cap on the step attempts of one adaptive run.
MaxAttempts == 14
\* Largest number of steps behind a stored transient result.
MaxPoints == 7
\* Cap on the passes of one sample_at_times loop.
MaxSamples == 8
\* Largest batch_size of a compacted cohort.
MaxCohort == 3
\* Largest item_size of a compacted cohort.
MaxItemSize == 2
\* Largest GmresConfig.max_iter and GmresConfig.restart.
MaxIter == 3
\* Largest operator dimension of a GMRES solve.
MaxDim == 3
\* Largest number of systems in one solve_batch call.
MaxBatch == 2
\* Largest matrix order of a solve_batch call.
MaxOrder == 2
\* Largest number of time steps of a fixed-step transient run.
MaxSteps == 2

Abs(x) == IF x < 0 THEN -x ELSE x

Max(a, b) == IF a >= b THEN a ELSE b

Min(a, b) == IF a <= b THEN a ELSE b

(***************************************************************************)
(* ConvergenceTracker                                                      *)
(***************************************************************************)
ConvergenceStatus == {"Active", "Converged", "Failed", "Singular"}

Points == 0 .. (BatchSize - 1)

is_active(s) == s = "Active"

is_finished(s) == ~is_active(s)

\* The tracker as one value, so that operations compose as in the code.
Self == [status |-> status, iterations |-> iterations,
         max_iterations |-> max_iterations, active_count |-> active_count]

with_max_iterations(batch_size, max_iter) ==
    [status |-> [i \in 0 .. (batch_size - 1) |-> "Active"],
     iterations |-> [i \in 0 .. (batch_size - 1) |-> 0],
     max_iterations |-> max_iter,
     active_count |-> batch_size]

mark_converged(self, index) ==
    IF is_active(self.status[index])
    THEN [self EXCEPT !.status[index] = "Converged", !.active_count = @ - 1]
    ELSE self

\* A mark_failed that overwrites whatever status the point has.
mark_failed_unguarded(self, index) ==
    [self EXCEPT !.status[index] = "Failed", !.active_count = @ - 1]

mark_failed(self, index) ==
    IF is_active(self.status[index])
    THEN [self EXCEPT !.status[index] = "Failed", !.active_count = @ - 1]
    ELSE self

\* A mark_singular that forgets the cached count.
mark_singular_stale_count(self, index) ==
    IF is_active(self.status[index])
    THEN [self EXCEPT !.status[index] = "Singular"]
    ELSE self

mark_singular(self, index) ==
    IF is_active(self.status[index])
    THEN [self EXCEPT !.status[index] = "Singular", !.active_count = @ - 1]
    ELSE self

\* An increment that fails a point only when its count exceeds the limit.
increment_iteration_exceeding(self, index) ==
    LET s1 == [self EXCEPT !.iterations[index] = @ + 1]
    IN  IF s1.iterations[index] > s1.max_iterations /\ is_active(s1.status[index])
        THEN mark_failed(s1, index)
        ELSE s1

increment_iteration(self, index) ==
    LET s1 == [self EXCEPT !.iterations[index] = @ + 1]
    IN  IF s1.iterations[index] >= s1.max_iterations /\ is_active(s1.status[index])
        THEN mark_failed(s1, index)
        ELSE s1

RECURSIVE increment_all_active_from(_, _)
increment_all_active_from(self, i) ==
    IF i >= BatchSize THEN self
    ELSE IF is_active(self.status[i])
         THEN increment_all_active_from(increment_iteration(self, i), i + 1)
         ELSE increment_all_active_from(self, i + 1)

increment_all_active(self) == increment_all_active_from(self, 0)

\* Inner loop of check_convergence for point i: no variable j < n has
\* |delta| > abstol + reltol * |value|.
point_converged(solution_changes, solutions, n, abstol, reltol, i) ==
    \A j \in 0 .. (n - 1) :
        ~(Abs(solution_changes[i * n + j]) > abstol + reltol * Abs(solutions[i * n + j]))

RECURSIVE check_convergence_from(_, _, _, _, _, _, _)
check_convergence_from(self, solution_changes, solutions, n, abstol, reltol, i) ==
    IF i >= BatchSize THEN self
    ELSE IF ~is_active(self.status[i])
         THEN check_convergence_from(self, solution_changes, solutions, n, abstol, reltol, i + 1)
         ELSE IF point_converged(solution_changes, solutions, n, abstol, reltol, i)
              THEN check_convergence_from(mark_converged(self, i), solution_changes,
                                          solutions, n, abstol, reltol, i + 1)
              ELSE check_convergence_from(self, solution_changes, solutions, n,
                                          abstol, reltol, i + 1)

check_convergence(self, solution_changes, solutions, n, abstol, reltol) ==
    check_convergence_from(self, solution_changes, solutions, n, abstol, reltol, 0)

RECURSIVE norm_sq(_, _, _, _)
norm_sq(residuals, offset, n, j) ==
    IF j >= n THEN 0
    ELSE residuals[offset + j] * residuals[offset + j] + norm_sq(residuals, offset, n, j + 1)

\* norm_sq.sqrt() < tolerance, for tolerance >= 0, compared on the squares.
residual_below(residuals, n, tolerance, i) ==
    tolerance > 0 /\ norm_sq(residuals, i * n, n, 0) < tolerance * tolerance

RECURSIVE check_residual_convergence_from(_, _, _, _, _)
check_residual_convergence_from(self, residuals, n, tolerance, i) ==
    IF i >= BatchSize THEN self
    ELSE IF ~is_active(self.status[i])
         THEN check_residual_convergence_from(self, residuals, n, tolerance, i + 1)
         ELSE IF residual_below(residuals, n, tolerance, i)
              THEN check_residual_convergence_from(mark_converged(self, i), residuals,
                                                   n, tolerance, i + 1)
              ELSE check_residual_convergence_from(self, residuals, n, tolerance, i + 1)

check_residual_convergence(self, residuals, n, tolerance) ==
    check_residual_convergence_from(self, residuals, n, tolerance, 0)

\* Input domains of the check_* operations (system size 1 per point).
SysN == {1}
DeltaValues == {0, -2}
SolutionValues == {-1}
AbsTols == {1}
RelTols == {0, 1}
ResidualValues == {0, -1}
Tolerances == {0, 1}

SetTracker(s) ==
    /\ status' = s.status
    /\ iterations' = s.iterations
    /\ max_iterations' = s.max_iterations
    /\ active_count' = s.active_count

TrackerInit ==
    \E m \in 0 .. MaxCount :
        LET s == with_max_iterations(BatchSize, m)
        IN  /\ status = s.status
            /\ iterations = s.iterations
            /\ max_iterations = s.max_iterations
            /\ active_count = s.active_count
            /\ last_op = <<"new", 0>>

\* The tracker when another subsystem is the one running.
TrackerIdle ==
    /\ status = [i \in Points |-> "Active"]
    /\ iterations = [i \in Points |-> 0]
    /\ max_iterations = 0
    /\ active_count = BatchSize
    /\ last_op = <<"new", 0>>

MarkConverged ==
    \E index \in Points :
        /\ SetTracker(mark_converged(Self, index))
        /\ last_op' = <<"mark_converged", index>>
        /\ UNCHANGED nonTrackerVars

MarkFailed ==
    \E index \in Points :
        /\ SetTracker(mark_failed(Self, index))
        /\ last_op' = <<"mark_failed", index>>
        /\ UNCHANGED nonTrackerVars

MarkSingular ==
    \E index \in Points :
        /\ SetTracker(mark_singular(Self, index))
        /\ last_op' = <<"mark_singular", index>>
        /\ UNCHANGED nonTrackerVars

IncrementIteration ==
    \E index \in Points :
        /\ iterations[index] < MaxCount + 1
        /\ SetTracker(increment_iteration(Self, index))
        /\ last_op' = <<"increment_iteration", index>>
        /\ UNCHANGED nonTrackerVars

IncrementAllActive ==
    /\ \A i \in Points : iterations[i] < MaxCount + 1
    /\ SetTracker(increment_all_active(Self))
    /\ last_op' = <<"increment_all_active", 0>>
    /\ UNCHANGED nonTrackerVars

CheckConvergence ==
    \E n \in SysN, abstol \in AbsTols, reltol \in RelTols :
        \E solution_changes \in [0 .. (BatchSize * n - 1) -> DeltaValues],
           solutions \in [0 .. (BatchSize * n - 1) -> SolutionValues] :
            /\ SetTracker(check_convergence(Self, solution_changes, solutions, n, abstol, reltol))
            /\ last_op' = <<"check_convergence", 0>>
            /\ UNCHANGED nonTrackerVars

CheckResidualConvergence ==
    \E n \in SysN, tolerance \in Tolerances :
        \E residuals \in [0 .. (BatchSize * n - 1) -> ResidualValues] :
            /\ SetTracker(check_residual_convergence(Self, residuals, n, tolerance))
            /\ last_op' = <<"check_residual_convergence", 0>>
            /\ UNCHANGED nonTrackerVars

TrackerNext ==
    \/ MarkConverged
    \/ MarkFailed
    \/ MarkSingular
    \/ IncrementIteration
    \/ IncrementAllActive
    \/ CheckConvergence
    \/ CheckResidualConvergence


(***************************************************************************)
(* solve_transient_adaptive                                                *)
(* Time, step sizes, LTE estimates and tolerances are integers (ticks and  *)
(* error units); a scaling factor is kept in hundredths and a product is   *)
(* rounded down.  The linear solve of the stamped circuit is an input of   *)
(* each step: whether it succeeds, and the LTE estimate and reference      *)
(* value it yields for every reactive element.                             *)
(***************************************************************************)
clamp_unbounded(x, lo, hi) == x

clamp(x, lo, hi) == IF x < lo THEN lo ELSE IF x > hi THEN hi ELSE x

RECURSIVE ulp(_)
\* The spacing of the floating-point values around x >= 0: 1 while x fits
\* the significand, doubling with every further binary digit.
ulp(x) == IF x < 2 ^ MantissaBits THEN 1 ELSE 2 * ulp(x \div 2)

\* Round x >= 0 to the nearest floating-point value, ties to even.
fl_round(x) ==
    LET s == ulp(x)
        lower == (x \div s) * s
        rem == x - lower
    IN  IF 2 * rem < s THEN lower
        ELSE IF 2 * rem > s THEN lower + s
        ELSE IF (lower \div s) % 2 = 0 THEN lower ELSE lower + s

\* f64 addition and subtraction of time values: `t + h`, `tstop - t`.
fl_add(a, b) == fl_round(a + b)

fl_sub(a, b) == fl_round(a - b)

\* The step the loop attempts: h clamped to [h_min, h_max], then shortened
\* so that it does not overshoot tstop.
attempted_step(h0, t0, p) ==
    LET hc == clamp(h0, p.h_min, p.h_max)
    IN  IF fl_add(t0, hc) > p.tstop THEN fl_sub(p.tstop, t0) ELSE hc

RECURSIVE fold_max(_, _)
fold_max(values, acc) ==
    IF values = <<>> THEN acc
    ELSE fold_max(Tail(values), Max(acc, Head(values)))

\* tol = abstol.max(reltol * max_ref)
lte_tolerance(p, max_ref) == Max(p.abstol, p.reltol * max_ref)

\* (tol / lte).sqrt() in hundredths, rounded down and capped at 2.00.
sqrt_ratio_pct(tol, lte) ==
    IF lte = 0 THEN 200
    ELSE CHOOSE q \in 0 .. 200 :
            /\ q * q * lte <= 10000 * tol
            /\ (q = 200 \/ (q + 1) * (q + 1) * lte > 10000 * tol)

\* Reject branch: factor = sqrt(tol / max_lte).min(0.5); h *= factor.max(0.1)
reduced_step(h0, tol, max_lte) ==
    (h0 * Max(Min(sqrt_ratio_pct(tol, max_lte), 50), 10)) \div 100

\* Accept branch: grow h when max_lte < tol * 0.5 and h < h_max.
grown_step(h0, tol, max_lte, p) ==
    IF 2 * max_lte < tol /\ h0 < p.h_max
    THEN (h0 * Min(Min(sqrt_ratio_pct(tol, max_lte), 200), 150)) \div 100
    ELSE h0

\* The test that sends a step to the reject branch.
step_rejected(max_lte, tol, h0, p) == max_lte > tol /\ h0 > p.h_min

\* CapacitorState::new and InductorState::new: the histories start at zero.
CapacitorState(capacitance) ==
    [capacitance |-> capacitance, v_prev |-> 0, i_prev |-> 0]

InductorState(inductance) ==
    [inductance |-> inductance, i_prev |-> 0, v_prev |-> 0]

\* CapacitorState::update with IntegrationMethod::Trapezoidal.
cap_update(cap, v_new, h0) ==
    [cap EXCEPT !.i_prev = (2 * cap.capacitance * (v_new - cap.v_prev)) \div h0
                            - cap.i_prev,
                !.v_prev = v_new]

\* InductorState::update with IntegrationMethod::Trapezoidal.
ind_update(ind, v_new, h0) ==
    [ind EXCEPT !.i_prev = ind.i_prev
                            + (h0 * (v_new + ind.v_prev)) \div (2 * ind.inductance),
                !.v_prev = v_new]

\* caps.iter().map(|c| (c.v_prev, c.i_prev)).collect()
save_cap_states(cs) == [j \in DOMAIN cs |-> <<cs[j].v_prev, cs[j].i_prev>>]

\* inds.iter().map(|i| (i.i_prev, i.v_prev)).collect()
save_ind_states(is) == [j \in DOMAIN is |-> <<is[j].i_prev, is[j].v_prev>>]

\* The restore loops of the reject branch, zipped with the saved states.
restore_cap_states_swapped(cs, saved) ==
    [j \in DOMAIN cs |->
        IF j \in DOMAIN saved
        THEN [cs[j] EXCEPT !.v_prev = saved[j][2], !.i_prev = saved[j][1]]
        ELSE cs[j]]

restore_cap_states(cs, saved) ==
    [j \in DOMAIN cs |->
        IF j \in DOMAIN saved
        THEN [cs[j] EXCEPT !.v_prev = saved[j][1], !.i_prev = saved[j][2]]
        ELSE cs[j]]

restore_ind_states(is, saved) ==
    [j \in DOMAIN is |->
        IF j \in DOMAIN saved
        THEN [is[j] EXCEPT !.i_prev = saved[j][1], !.v_prev = saved[j][2]]
        ELSE is[j]]

\* The circuit of the run: one capacitor and one inductor across a voltage
\* source, a ramp of one unit per tick, which stamp_at_time stamps at time
\* x; voltage_from_solution yields the source's value for both elements.
source_value(x) == x

\* Input domains: the parameters of a run and what a solve yields.
StepSizes == {1, 2, 4}
InitialSteps == {1, 4, 20}
RelTolValues == {0, 1}
LteValues == {0, 1, 3, 9, 900}
NoStep == [h |-> 0, max_lte |-> 0, tol |-> 0, kind |-> "none"]

AdaptiveParams ==
    {p \in [tstop : {3, MaxTstop}, h_init : InitialSteps, h_min : StepSizes,
            h_max : StepSizes, reltol : RelTolValues, abstol : {2}] :
        /\ p.h_min <= p.h_max
        /\ p.tstop = fl_round(p.tstop)}

AdaptiveInit ==
    /\ params \in AdaptiveParams
    /\ a_pc = "loop"
    /\ t = 0
    /\ h = params.h_init
    /\ points = <<0>>
    /\ total_steps = 0
    /\ rejected_steps = 0
    /\ a_result = "none"
    /\ last_step = NoStep
    /\ caps = <<CapacitorState(6)>>
    /\ inds = <<InductorState(1)>>
    /\ saved_cap_states = save_cap_states(caps)
    /\ saved_ind_states = save_ind_states(inds)
    /\ stamp_times = <<0>>

AdaptiveIdle ==
    /\ params = [tstop |-> 0, h_init |-> 1, h_min |-> 1, h_max |-> 1,
                 reltol |-> 0, abstol |-> 0]
    /\ a_pc = "idle"
    /\ t = 0
    /\ h = 0
    /\ points = <<>>
    /\ total_steps = 0
    /\ rejected_steps = 0
    /\ a_result = "none"
    /\ last_step = NoStep
    /\ caps = <<>>
    /\ inds = <<>>
    /\ saved_cap_states = <<>>
    /\ saved_ind_states = <<>>
    /\ stamp_times = <<>>

\* One iteration of `while t < params.tstop`.
AdaptiveStep ==
    /\ a_pc = "loop"
    /\ t < params.tstop
    /\ total_steps < MaxAttempts
    /\ \E solved \in BOOLEAN, cap_lte \in LteValues, ind_lte \in LteValues,
          v_new \in {source_value(t)} :
        LET hs == attempted_step(h, t, params)
            max_lte == fold_max(<<cap_lte, ind_lte>>, 0)
            max_ref == fold_max(<<Abs(v_new), Abs(inds[1].i_prev)>>, 0)
            tol == lte_tolerance(params, max_ref)
        IN  IF ~solved
            THEN \* the `?` on the linear solve returns the error
                 /\ a_pc' = "done"
                 /\ a_result' = "Err"
                 /\ h' = hs
                 /\ last_step' = [h |-> hs, max_lte |-> 0, tol |-> 0, kind |-> "solve_error"]
                 /\ UNCHANGED <<t, points, total_steps, rejected_steps, params,
                                caps, inds, saved_cap_states, saved_ind_states,
                                stamp_times>>
            ELSE IF step_rejected(max_lte, tol, hs, params)
            THEN /\ rejected_steps' = rejected_steps + 1
                 /\ total_steps' = total_steps + 1
                 /\ h' = reduced_step(hs, tol, max_lte)
                 /\ last_step' = [h |-> hs, max_lte |-> max_lte, tol |-> tol, kind |-> "rejected"]
                 /\ caps' = restore_cap_states(caps, saved_cap_states)
                 /\ inds' = restore_ind_states(inds, saved_ind_states)
                 /\ UNCHANGED <<a_pc, t, points, a_result, params,
                                saved_cap_states, saved_ind_states, stamp_times>>
            ELSE /\ total_steps' = total_steps + 1
                 /\ t' = fl_add(t, hs)
                 /\ points' = Append(points, fl_add(t, hs))
                 \* stamper.stamp_at_time(&mut mna, t), before `t += h`
                 /\ stamp_times' = Append(stamp_times, t)
                 /\ h' = grown_step(hs, tol, max_lte, params)
                 /\ last_step' = [h |-> hs, max_lte |-> max_lte, tol |-> tol, kind |-> "accepted"]
                 /\ caps' = [j \in DOMAIN caps |-> cap_update(caps[j], v_new, hs)]
                 /\ inds' = [j \in DOMAIN inds |-> ind_update(inds[j], v_new, hs)]
                 /\ saved_cap_states' = save_cap_states(caps')
                 /\ saved_ind_states' = save_ind_states(inds')
                 /\ UNCHANGED <<a_pc, rejected_steps, a_result, params>>
    /\ UNCHANGED nonAdaptiveVars

\* The loop ends and the function returns Ok(result).
AdaptiveReturn ==
    /\ a_pc = "loop"
    /\ ~(t < params.tstop)
    /\ a_pc' = "done"
    /\ a_result' = "Ok"
    /\ UNCHANGED <<t, h, params, points, total_steps, rejected_steps, last_step,
                   caps, inds, saved_cap_states, saved_ind_states, stamp_times>>
    /\ UNCHANGED nonAdaptiveVars

AdaptiveNext ==
    \/ AdaptiveStep
    \/ AdaptiveReturn

(***************************************************************************)
(* FaerSparseCachedBatchedSolver: the symbolic cache                       *)
(* An Option is a sequence of length at most one.  A critical section      *)
(* under the RwLock is one atomic action; what a call does between two     *)
(* critical sections is a separate action, so calls interleave there.      *)
(***************************************************************************)
Threads == {"t1", "t2"}
Orders == {1, 2}
BatchSizes == {0, 1}
None == <<>>
Some(x) == <<x>>

\* FaerSparseCachedBatchedSolver::new
EmptyCache == [symbolic |-> None, expected_size |-> None]

NoCall == [pc |-> "idle", n |-> 0, batch_size |-> 0, symbolic |-> None,
           result |-> "none"]

\* `&matrices[0..n * n]` of a buffer of batch_size * n * n elements.
first_matrix_in_bounds(n, batch_size) == n * n <= batch_size * n * n

CacheInit ==
    /\ cached = EmptyCache
    /\ calls = [th \in Threads |-> NoCall]
    /\ installs = 0

CacheIdle == CacheInit

\* solve_batch is entered and checks the buffer lengths.
CacheCall(th) ==
    /\ calls[th].pc = "idle"
    /\ \E n \in Orders, batch_size \in BatchSizes, lens_ok \in BOOLEAN :
        calls' = [calls EXCEPT ![th] =
            IF lens_ok
            THEN [NoCall EXCEPT !.pc = "read", !.n = n, !.batch_size = batch_size]
            ELSE [NoCall EXCEPT !.pc = "done", !.n = n, !.batch_size = batch_size,
                                !.result = "Err(InvalidDimension)"]]
    /\ UNCHANGED <<cached, installs>>
    /\ UNCHANGED nonCacheVars

\* The section under the read lock: a hit of the same order clones the Arc,
\* a hit of another order is an error, a miss drops the lock.
CacheRead(th) ==
    /\ calls[th].pc = "read"
    /\ calls' = [calls EXCEPT ![th] =
            IF cached.symbolic # None
            THEN IF cached.expected_size # Some(calls[th].n)
                 THEN [@ EXCEPT !.pc = "done", !.result = "Err(InvalidDimension)"]
                 ELSE [@ EXCEPT !.pc = "solve", !.symbolic = cached.symbolic]
            ELSE [@ EXCEPT !.pc = "build"]]
    /\ UNCHANGED <<cached, installs>>
    /\ UNCHANGED nonCacheVars

\* With no lock held: slice the first matrix and build the symbolic
\* factorisation from it.
CacheBuild(th) ==
    /\ calls[th].pc = "build"
    /\ \E built \in BOOLEAN :
        calls' = [calls EXCEPT ![th] =
            IF ~first_matrix_in_bounds(calls[th].n, calls[th].batch_size)
            THEN [@ EXCEPT !.pc = "done", !.result = "Panic"]
            ELSE IF ~built
            THEN [@ EXCEPT !.pc = "done", !.result = "Err(Backend)"]
            ELSE [@ EXCEPT !.pc = "write",
                           !.symbolic = Some([order |-> calls[th].n, by |-> th])]]
    /\ UNCHANGED <<cached, installs>>
    /\ UNCHANGED nonCacheVars

\* The section under the write lock: store the new factorisation.
CacheInstall(th) ==
    /\ calls[th].pc = "write"
    /\ cached' = [symbolic |-> calls[th].symbolic,
                  expected_size |-> Some(calls[th].n)]
    /\ installs' = installs + 1
    /\ calls' = [calls EXCEPT ![th].pc = "solve"]
    /\ UNCHANGED nonCacheVars

\* The per-system loop and the Ok return.
CacheSolve(th) ==
    /\ calls[th].pc = "solve"
    /\ calls' = [calls EXCEPT ![th].pc = "done", ![th].result = "Ok"]
    /\ UNCHANGED <<cached, installs>>
    /\ UNCHANGED nonCacheVars

\* The caller has its result; the thread may call again.
CacheReturn(th) ==
    /\ calls[th].pc = "done"
    /\ calls' = [calls EXCEPT ![th] = NoCall]
    /\ UNCHANGED <<cached, installs>>
    /\ UNCHANGED nonCacheVars

\* reset_cache, from any thread, under the write lock.
reset_cache ==
    /\ cached' = EmptyCache
    /\ installs' = 0
    /\ UNCHANGED calls
    /\ UNCHANGED nonCacheVars

CacheNext ==
    \/ \E th \in Threads : CacheCall(th)
    \/ \E th \in Threads : CacheRead(th)
    \/ \E th \in Threads : CacheBuild(th)
    \/ \E th \in Threads : CacheInstall(th)
    \/ \E th \in Threads : CacheSolve(th)
    \/ \E th \in Threads : CacheReturn(th)
    \/ reset_cache

(***************************************************************************)
(* Restarted GMRES (solve_gmres_real, solve_gmres_real_preconditioned and  *)
(* the complex entry points share this control flow).                      *)
(* The outcome of every floating-point test on norms and residuals is an   *)
(* input of the step that makes it: the operator, the preconditioner and   *)
(* the right-hand side are arbitrary.                                      *)
(***************************************************************************)
NoResult == [converged |-> FALSE, iterations |-> 0, returned |-> FALSE]

GmresResult(conv, iters) ==
    [converged |-> conv, iterations |-> iters, returned |-> TRUE]

\* `if total_iter > config.max_iter { break; }`
iteration_cap_reached_never(total, cfg) == FALSE

iteration_cap_reached(total, cfg) == total > cfg.max_iter

\* `let m = config.restart.min(n);`
krylov_dim(cfg, n) == Min(cfg.restart, n)

\* Whether an Arnoldi step applies the previous Givens rotations to its
\* column h[k] and computes the rotation of that column: the lucky breakdown
\* `if w_norm < 1e-30 { k += 1; break; }` leaves the loop before both.
column_rotated(outcome) == outcome # "breakdown"

\* `if final_res / b_norm < config.tol` after the update of x: the test reads
\* the recomputed residual only, not the rotated estimate of the inner loop.
converged_after_update_or_estimate(final_small, estimate) == final_small \/ estimate

converged_after_update(final_small, estimate) == final_small

\* `if b_norm < 1e-30`, for a right-hand side that is all zero, one of norm
\* below 1e-30, or any other.
rhs_norm_tiny_never(b) == FALSE

rhs_norm_tiny(b) == b \in {"zero", "tiny"}

GmresConfigs == [max_iter : 0 .. MaxIter, restart : 0 .. MaxIter]

GmresInit ==
    /\ g_pc = "entry"
    /\ config \in GmresConfigs
    /\ dim \in 1 .. MaxDim
    /\ total_iter = 0
    /\ restart_cycle = 0
    /\ k = 0
    /\ arnoldi = 0
    /\ g_result = NoResult
    /\ rotated = <<>>
    /\ estimate_small = FALSE
    /\ explicit_small = FALSE
    /\ g_exit = "none"
    /\ rhs \in {"zero", "tiny", "regular"}

GmresIdle ==
    /\ g_pc = "idle"
    /\ config = [max_iter |-> 0, restart |-> 0]
    /\ dim = 0
    /\ total_iter = 0
    /\ restart_cycle = 0
    /\ k = 0
    /\ arnoldi = 0
    /\ g_result = NoResult
    /\ rotated = <<>>
    /\ estimate_small = FALSE
    /\ explicit_small = FALSE
    /\ g_exit = "none"
    /\ rhs = "zero"

\* Entry: a right-hand side of norm below 1e-30 returns x = 0 at once.
GmresEnter ==
    /\ g_pc = "entry"
    /\ IF rhs_norm_tiny(rhs)
        THEN /\ g_pc' = "done"
             /\ g_result' = GmresResult(TRUE, 0)
             /\ g_exit' = "rhs_zero"
        ELSE /\ g_pc' = "cycle"
             /\ UNCHANGED <<g_result, g_exit>>
    /\ UNCHANGED <<config, dim, total_iter, restart_cycle, k, arnoldi,
                   rotated, estimate_small, explicit_small, rhs>>
    /\ UNCHANGED nonGmresVars

\* Head of `for _restart_cycle in 0..config.max_iter`: the residual test,
\* or the return after the loop when the range is exhausted.
GmresCycle ==
    /\ g_pc = "cycle"
    /\ IF restart_cycle >= config.max_iter
       THEN /\ g_pc' = "done"
            /\ g_result' = GmresResult(FALSE, total_iter)
            /\ g_exit' = "after_loop"
            /\ UNCHANGED <<k, rotated, estimate_small, explicit_small>>
       ELSE \E residual_small \in BOOLEAN :
            /\ explicit_small' = residual_small
            /\ IF residual_small
               THEN /\ g_pc' = "done"
                    /\ g_result' = GmresResult(TRUE, total_iter)
                    /\ g_exit' = "head_residual"
                    /\ UNCHANGED <<k, rotated, estimate_small>>
               ELSE /\ g_pc' = "arnoldi"
                    /\ k' = 0
                    /\ rotated' = <<>>
                    /\ estimate_small' = FALSE
                    /\ UNCHANGED <<g_result, g_exit>>
    /\ UNCHANGED <<config, dim, total_iter, restart_cycle, arnoldi, rhs>>
    /\ UNCHANGED nonGmresVars

\* One pass of `while k < m`: count the iteration, stop at the cap,
\* otherwise do the Arnoldi step and leave the loop on a breakdown or when
\* the rotated residual is below the tolerance.
GmresArnoldi ==
    /\ g_pc = "arnoldi"
    /\ IF k < krylov_dim(config, dim)
       THEN /\ total_iter' = total_iter + 1
            /\ IF iteration_cap_reached(total_iter + 1, config)
               THEN /\ g_pc' = "update"
                    /\ UNCHANGED <<k, arnoldi, rotated, estimate_small>>
               ELSE \E outcome \in {"breakdown", "residual_small", "continue"} :
                    /\ arnoldi' = arnoldi + 1
                    /\ k' = k + 1
                    /\ rotated' = Append(rotated, column_rotated(outcome))
                    /\ estimate_small' = (outcome = "residual_small")
                    /\ g_pc' = IF outcome = "continue" THEN "arnoldi" ELSE "update"
       ELSE /\ g_pc' = "update"
            /\ UNCHANGED <<total_iter, k, arnoldi, rotated, estimate_small>>
    /\ UNCHANGED <<config, dim, restart_cycle, g_result, explicit_small, g_exit, rhs>>
    /\ UNCHANGED nonGmresVars

\* Back-substitution, update of x, and the two tests that end the cycle.
GmresUpdate ==
    /\ g_pc = "update"
    /\ \E final_small \in BOOLEAN :
        /\ explicit_small' = final_small
        /\ IF converged_after_update(final_small, estimate_small)
           THEN /\ g_pc' = "done"
                /\ g_result' = GmresResult(TRUE, total_iter)
                /\ g_exit' = "final_residual"
                /\ UNCHANGED restart_cycle
           ELSE IF total_iter >= config.max_iter
           THEN /\ g_pc' = "done"
                /\ g_result' = GmresResult(FALSE, total_iter)
                /\ g_exit' = "iteration_cap"
                /\ UNCHANGED restart_cycle
           ELSE /\ g_pc' = "cycle"
                /\ restart_cycle' = restart_cycle + 1
                /\ UNCHANGED <<g_result, g_exit>>
    /\ UNCHANGED <<config, dim, total_iter, k, arnoldi, rotated, estimate_small, rhs>>
    /\ UNCHANGED nonGmresVars

GmresNext ==
    \/ GmresEnter
    \/ GmresCycle
    \/ GmresArnoldi
    \/ GmresUpdate

(***************************************************************************)
(* The batched backends: one solve_batch call                              *)
(* A system is described by what its factorisation and solve do:           *)
(*   "regular"          finite solution, no zero pivot                     *)
(*   "zero_pivot"       the factorisation meets an exactly zero pivot      *)
(*   "nonfinite"        no zero pivot, but the solution holds NaN or inf   *)
(*   "illegal_argument" the LAPACK routine rejects its arguments (info<0)  *)
(* A solution slot is a sequence of n entries: "x" (a finite value of the  *)
(* system's solution), "nonfinite", "zero", or "device" (what the GPU      *)
(* kernel wrote).                                                          *)
(***************************************************************************)
HostBackends == {"Cpu", "Faer", "FaerSparse", "Accelerate", "Metal"}
Backends == HostBackends \cup {"MetalLu"}
SystemClasses == {"regular", "zero_pivot", "nonfinite"}

slot(n, v) == [j \in 1 .. n |-> v]

\* nalgebra LU::solve: None exactly when a diagonal entry of U is zero
\* (CpuBatchedSolver and the CPU fallback of MetalBatchedSolver).
cpu_system(class, n) ==
    IF class = "zero_pivot"
    THEN [singular |-> TRUE, slot |-> slot(n, "zero")]
    ELSE [singular |-> FALSE,
          slot |-> slot(n, IF class = "nonfinite" THEN "nonfinite" ELSE "x")]

\* FaerBatchedSolver: singular iff some solution entry is not finite; a
\* zero pivot divides by zero, which leaves a non-finite entry.
faer_system(class, n) ==
    IF class \in {"zero_pivot", "nonfinite"}
    THEN [singular |-> TRUE, slot |-> slot(n, "zero")]
    ELSE [singular |-> FALSE, slot |-> slot(n, "x")]

\* solve_with_symbolic: Err when the numeric factorisation fails or an
\* entry of the solution is not finite.
solve_with_symbolic(class, n) ==
    IF class \in {"zero_pivot", "nonfinite"}
    THEN [singular |-> TRUE, slot |-> slot(n, "zero")]
    ELSE [singular |-> FALSE, slot |-> slot(n, "x")]

\* AccelerateBatchedSolver: dgesv's info = 0 keeps b_copy as it is, info > 0
\* is a singular system.
accelerate_system(class, n) ==
    IF class = "zero_pivot"
    THEN [singular |-> TRUE, slot |-> slot(n, "zero")]
    ELSE [singular |-> FALSE,
          slot |-> slot(n, IF class = "nonfinite" THEN "nonfinite" ELSE "x")]

solve_system(backend, class, n) ==
    CASE backend \in {"Cpu", "Metal"} -> cpu_system(class, n)
      [] backend = "Faer" -> faer_system(class, n)
      [] backend = "FaerSparse" -> solve_with_symbolic(class, n)
      [] OTHER -> accelerate_system(class, n)

RECURSIVE flagged_indices(_, _)
\* MetalBatchedLuSolver: the indices whose info entry is positive.
flagged_indices(systems, i) ==
    IF i > Len(systems) THEN <<>>
    ELSE (IF systems[i] = "zero_pivot" THEN <<i - 1>> ELSE <<>>)
         \o flagged_indices(systems, i + 1)

SystemSeqs(classes) ==
    UNION {[1 .. len -> classes] : len \in 0 .. MaxBatch}

BatchCalls ==
    {c \in [backend : Backends, n : 0 .. MaxOrder, batch_size : 0 .. MaxBatch,
            systems : SystemSeqs(SystemClasses \cup {"illegal_argument"}),
            lens_ok : BOOLEAN, resources_ok : BOOLEAN,
            max_matrix_size : {1, MaxOrder}] :
        /\ Len(c.systems) = c.batch_size
        /\ c.n = 0 => \A i \in 1 .. c.batch_size : c.systems[i] = "regular"
        /\ c.backend # "Accelerate" =>
             \A i \in 1 .. c.batch_size : c.systems[i] # "illegal_argument"
        /\ c.backend # "MetalLu" => c.max_matrix_size = MaxOrder
        /\ c.backend \notin {"FaerSparse", "MetalLu"} => c.resources_ok}

Ok == [kind |-> "Ok", error |-> "none"]
Err(e) == [kind |-> "Err", error |-> e]
Panic == [kind |-> "Panic", error |-> "index out of range"]
Pending == [kind |-> "none", error |-> "none"]

BatchInit ==
    /\ b_pc = "call"
    /\ call \in BatchCalls
    /\ b_i = 0
    /\ b_solutions = <<>>
    /\ singular_indices = <<>>
    /\ b_result = Pending

BatchIdle ==
    /\ b_pc = "idle"
    /\ call = [backend |-> "Cpu", n |-> 0, batch_size |-> 0, systems |-> <<>>,
               lens_ok |-> TRUE, resources_ok |-> TRUE,
               max_matrix_size |-> MaxOrder]
    /\ b_i = 0
    /\ b_solutions = <<>>
    /\ singular_indices = <<>>
    /\ b_result = Pending

\* Everything solve_batch does before its first system: the length checks,
\* MetalBatchedLuSolver's order check and empty-batch return, and
\* FaerSparseCachedBatchedSolver's symbolic factorisation on a new solver.
BatchEnter ==
    /\ b_pc = "call"
    /\  IF ~call.lens_ok
        THEN b_pc' = "done" /\ b_result' = Err("InvalidDimension")
        ELSE IF call.backend = "MetalLu"
        THEN IF call.n > call.max_matrix_size
             THEN b_pc' = "done" /\ b_result' = Err("InvalidDimension")
             ELSE IF call.batch_size = 0
             THEN b_pc' = "done" /\ b_result' = Ok
             ELSE b_pc' = "device" /\ UNCHANGED b_result
        ELSE IF call.backend = "FaerSparse"
        THEN IF ~first_matrix_in_bounds(call.n, call.batch_size)
             THEN b_pc' = "done" /\ b_result' = Panic
             ELSE IF ~call.resources_ok
             THEN b_pc' = "done" /\ b_result' = Err("Backend")
             ELSE b_pc' = "loop" /\ UNCHANGED b_result
        ELSE b_pc' = "loop" /\ UNCHANGED b_result
    /\ UNCHANGED <<call, b_i, b_solutions, singular_indices>>
    /\ UNCHANGED nonBatchVars

\* One pass of `for i in 0..batch_size` of a host backend.
BatchSystem ==
    /\ b_pc = "loop"
    /\ b_i < call.batch_size
    /\ LET class == call.systems[b_i + 1]
           r == solve_system(call.backend, class, call.n)
       IN  IF class = "illegal_argument"
           THEN /\ b_pc' = "done"
                /\ b_result' = Err("Backend")
                /\ UNCHANGED <<b_i, b_solutions, singular_indices>>
           ELSE /\ b_solutions' = Append(b_solutions, r.slot)
                /\ singular_indices' =
                      IF r.singular THEN Append(singular_indices, b_i)
                      ELSE singular_indices
                /\ b_i' = b_i + 1
                /\ UNCHANGED <<b_pc, b_result>>
    /\ UNCHANGED call
    /\ UNCHANGED nonBatchVars

\* The loop is over: Ok(BatchedSolveResult { .. }).
BatchReturn ==
    /\ b_pc = "loop"
    /\ b_i = call.batch_size
    /\ b_pc' = "done"
    /\ b_result' = Ok
    /\ UNCHANGED <<call, b_i, b_solutions, singular_indices>>
    /\ UNCHANGED nonBatchVars

\* MetalBatchedLuSolver: the whole batch goes through the GPU; the solution
\* buffer is read back as it is and the info buffer gives the singular
\* indices.  Mapping a buffer may fail.
BatchDevice ==
    /\ b_pc = "device"
    /\  IF ~call.resources_ok
        THEN /\ b_result' = Err("Buffer")
             /\ UNCHANGED <<b_solutions, singular_indices>>
        ELSE /\ b_solutions' = [i \in 1 .. call.batch_size |-> slot(call.n, "device")]
             /\ singular_indices' = flagged_indices(call.systems, 1)
             /\ b_result' = Ok
    /\ b_pc' = "done"
    /\ UNCHANGED <<call, b_i>>
    /\ UNCHANGED nonBatchVars

BatchNext ==
    \/ BatchEnter
    \/ BatchSystem
    \/ BatchReturn
    \/ BatchDevice

(***************************************************************************)
(* solve_batched_sweep_gpu: backend fallback                               *)
(***************************************************************************)
BackendType == {"Cuda", "Metal", "Cpu"}

\* DispatchConfig::use_gpu_batch
use_gpu_batch(cfg, matrix_size, batch_size) ==
    IF cfg.backend = "Cpu" THEN FALSE
    ELSE matrix_size >= cfg.min_matrix_size /\ batch_size >= cfg.min_batch_size

\* BatchedLuSolver::should_use_gpu of the created solver: the CPU solver
\* and MetalBatchedSolver return false; the CUDA solver's answer comes from
\* its backend crate and is an input.
should_use_gpu(sw, matrix_size, batch_size) ==
    IF sw.solver = "Cuda" THEN sw.cuda_accepts ELSE FALSE

\* BatchedLuSolver::backend_type
backend_type(sw) == sw.solver

NoSweepResult ==
    [kind |-> "none", used_gpu |-> FALSE, backend_used |-> "Cpu", total_count |-> 0]

SweepCalls ==
    {sw \in [solver : BackendType, cuda_accepts : BOOLEAN,
             config : [backend : BackendType, min_matrix_size : 1 .. MaxOrder,
                       min_batch_size : 1 .. MaxBatch],
             system_size : 1 .. MaxOrder, total_count : 0 .. MaxBatch,
             solve_ok : BOOLEAN] :
        sw.solver # "Cuda" => ~sw.cuda_accepts}

SweepInit ==
    /\ s_pc = "generate"
    /\ sweep \in SweepCalls
    /\ use_gpu = FALSE
    /\ sweep_result = NoSweepResult

SweepIdle ==
    /\ s_pc = "idle"
    /\ sweep = [solver |-> "Cpu", cuda_accepts |-> FALSE,
                config |-> [backend |-> "Cpu", min_matrix_size |-> 1,
                            min_batch_size |-> 1],
                system_size |-> 1, total_count |-> 0, solve_ok |-> TRUE]
    /\ use_gpu = FALSE
    /\ sweep_result = NoSweepResult

\* generator.generate and the empty-sweep return.
SweepGenerate ==
    /\ s_pc = "generate"
    /\ IF sweep.total_count = 0
       THEN /\ s_pc' = "done"
            /\ sweep_result' = [kind |-> "Ok", used_gpu |-> FALSE,
                                backend_used |-> "Cpu", total_count |-> 0]
       ELSE /\ s_pc' = "select"
            /\ UNCHANGED sweep_result
    /\ UNCHANGED <<sweep, use_gpu>>
    /\ UNCHANGED nonSweepVars

\* `let use_gpu = config.use_gpu_batch(..)` and backend.create_solver().
SweepSelect ==
    /\ s_pc = "select"
    /\ use_gpu' = use_gpu_batch(sweep.config, sweep.system_size, sweep.total_count)
    /\ s_pc' = "solve"
    /\ UNCHANGED <<sweep, sweep_result>>
    /\ UNCHANGED nonSweepVars

\* solve_with_solver(&*solver, ..): both branches of the use_gpu test call
\* it with the created solver.
solve_with_solver(sw) ==
    IF ~sw.solve_ok
    THEN [kind |-> "Err", used_gpu |-> FALSE, backend_used |-> "Cpu",
          total_count |-> 0]
    ELSE [kind |-> "Ok", used_gpu |-> backend_type(sw) # "Cpu",
          backend_used |-> backend_type(sw), total_count |-> sw.total_count]

SweepSolve ==
    /\ s_pc = "solve"
    /\ sweep_result' =
          IF ~use_gpu \/ backend_type(sweep) = "Cpu"
          THEN solve_with_solver(sweep)
          ELSE solve_with_solver(sweep)
    /\ s_pc' = "done"
    /\ UNCHANGED <<sweep, use_gpu>>
    /\ UNCHANGED nonSweepVars

SweepNext ==
    \/ SweepGenerate
    \/ SweepSelect
    \/ SweepSolve

(***************************************************************************)
(* Fixed-step transient analysis (solve_transient and                      *)
(* solve_transient_dispatched).  One pass of `for step in 1..=num_steps`   *)
(* is one action.  What a linear solve yields is an input of the pass.     *)
(***************************************************************************)
SolveOk(x) == [kind |-> "Ok", error |-> "none", x |-> x]

SolveErr(e) == [kind |-> "Err", error |-> e, x |-> "none"]

\* solve_dense, and CachedSparseLu for the sparse path: LU, then
\* `.ok_or(Error::SingularMatrix)`.
solve_dense_unchecked(outcome) == SolveOk("solution")

solve_dense(outcome) ==
    IF outcome = "SingularMatrix" THEN SolveErr("SingularMatrix")
    ELSE SolveOk("solution")

\* solve_transient_gmres: an operator that cannot be built is a SolverError;
\* a solve that did not converge logs a warning and returns Ok(x).
solve_transient_gmres(outcome) ==
    IF outcome = "no_operator" THEN SolveErr("SolverError")
    ELSE IF outcome = "converged" THEN SolveOk("solution")
    ELSE SolveOk("unconverged_iterate")

\* The closure solve_mna, and the inline solve of solve_transient.
solve_mna(c, outcome) ==
    IF c.use_gmres THEN solve_transient_gmres(outcome) ELSE solve_dense(outcome)

LinearOutcomes(c) ==
    IF c.use_gmres THEN {"converged", "hit_cap", "no_operator"}
    ELSE {"solved", "SingularMatrix"}

\* The solves of one time step and the history update that follows each.
integration_stages_single(method) ==
    <<[solve |-> "solve_trap", update |-> "update"]>>

integration_stages(method) ==
    IF method = "BackwardEuler"
    THEN <<[solve |-> "solve_be", update |-> "update"]>>
    ELSE IF method = "Trapezoidal"
    THEN <<[solve |-> "solve_trap", update |-> "update"]>>
    ELSE <<[solve |-> "solve_trap_gamma", update |-> "update_trbdf2_intermediate"],
           [solve |-> "solve_bdf2", update |-> "update"]>>

RECURSIVE run_stages(_, _, _, _)
\* Run the stages in order; `?` on a failed solve leaves the function.
run_stages(c, stages, outcomes, acc) ==
    IF stages = <<>> THEN acc
    ELSE LET r == solve_mna(c, Head(outcomes))
             ops == Append(acc.ops, Head(stages).solve)
             seen == Append(acc.outcomes, Head(outcomes))
         IN  IF r.kind = "Err"
             THEN [ops |-> ops, outcomes |-> seen, result |-> r]
             ELSE run_stages(c, Tail(stages), Tail(outcomes),
                             [ops |-> Append(ops, Head(stages).update),
                              outcomes |-> seen, result |-> r])

NoFixedResult == [kind |-> "none", error |-> "none", points |-> <<>>]

IntegrationMethods == {"BackwardEuler", "Trapezoidal", "TrBdf2"}

FixedCalls ==
    {c \in [entry : {"solve_transient", "solve_transient_dispatched"},
            method : IntegrationMethods, tstop : 1 .. MaxSteps, tstep : {1, 2},
            num_steps : 0 .. MaxSteps, use_gmres : BOOLEAN] :
        /\ c.entry = "solve_transient" => ~c.use_gmres
        \* let num_steps = (params.tstop / h).ceil() as usize;
        /\ c.num_steps = (c.tstop + c.tstep - 1) \div c.tstep}

FixedInit ==
    /\ f_pc = "loop"
    /\ f_call \in FixedCalls
    /\ f_step = 0
    /\ f_points = <<[time |-> 0, stamped |-> 0, solution |-> "dc_solution"]>>
    /\ f_solves = 0
    /\ f_ops = <<>>
    /\ f_outcomes = <<>>
    /\ f_result = NoFixedResult

FixedIdle ==
    /\ f_pc = "idle"
    /\ f_call = [entry |-> "none", method |-> "none", tstop |-> 0, tstep |-> 1,
                 num_steps |-> 0, use_gmres |-> FALSE]
    /\ f_step = 0
    /\ f_points = <<>>
    /\ f_solves = 0
    /\ f_ops = <<>>
    /\ f_outcomes = <<>>
    /\ f_result = NoFixedResult

\* One pass of the step loop.
FixedStep ==
    /\ f_pc = "loop"
    /\ f_step < f_call.num_steps
    /\ \E o1 \in LinearOutcomes(f_call), o2 \in LinearOutcomes(f_call) :
        LET run == run_stages(f_call, integration_stages(f_call.method), <<o1, o2>>,
                              [ops |-> <<>>, outcomes |-> <<>>, result |-> SolveOk("none")])
            \* let t = (step as f64) * h; every stage stamps the sources at t
            time == fl_round((f_step + 1) * f_call.tstep)
        IN  /\ f_solves' = f_solves + Len(run.outcomes)
            /\ f_outcomes' = run.outcomes
            /\ IF run.result.kind = "Err"
               THEN /\ f_pc' = "done"
                    /\ f_result' = [kind |-> "Err", error |-> run.result.error,
                                    points |-> <<>>]
                    /\ f_ops' = run.ops
                    /\ UNCHANGED <<f_step, f_points>>
               ELSE /\ f_step' = f_step + 1
                    /\ f_points' = Append(f_points, [time |-> time, stamped |-> time,
                                                     solution |-> run.result.x])
                    /\ f_ops' = Append(run.ops, "push_point")
                    /\ UNCHANGED <<f_pc, f_result>>
    /\ UNCHANGED f_call
    /\ UNCHANGED nonFixedVars

\* The loop is over: Ok(result).
FixedReturn ==
    /\ f_pc = "loop"
    /\ ~(f_step < f_call.num_steps)
    /\ f_pc' = "done"
    /\ f_result' = [kind |-> "Ok", error |-> "none", points |-> f_points]
    /\ UNCHANGED <<f_call, f_step, f_points, f_solves, f_ops, f_outcomes>>
    /\ UNCHANGED nonFixedVars

FixedNext ==
    \/ FixedStep
    \/ FixedReturn

(***************************************************************************)
(* TransientResult and AdaptiveTransientResult: interpolate_at and         *)
(* sample_at_times (the two types hold the same code).  A solution is one  *)
(* integer; a call is chosen with the stored result.                       *)
(***************************************************************************)
TimePoint(time, solution) == [time |-> time, solution |-> solution]

\* A mutation of lerp that answers the left end of the interval.
lerp_left(v0, v1, t0, t1, time) == v0

\* alpha = (time - t0) / (t1 - t0); v0 * (1.0 - alpha) + v1 * alpha, taken
\* over the common denominator t1 - t0 and rounded down.
lerp(v0, v1, t0, t1, time) ==
    (v0 * ((t1 - t0) - (time - t0)) + v1 * (time - t0)) \div (t1 - t0)

RECURSIVE interpolate_scan(_, _, _)
\* for i in 0..self.points.len() - 1: the first interval that holds time.
interpolate_scan(pts, time, i) ==
    IF i >= Len(pts) THEN None
    ELSE IF time >= pts[i].time /\ time <= pts[i + 1].time
         THEN Some(lerp(pts[i].solution, pts[i + 1].solution,
                        pts[i].time, pts[i + 1].time, time))
         ELSE interpolate_scan(pts, time, i + 1)

interpolate_at(pts, time) ==
    IF pts = <<>> THEN None
    ELSE IF time <= pts[1].time THEN Some(pts[1].solution)
    ELSE IF time >= pts[Len(pts)].time THEN Some(pts[Len(pts)].solution)
    ELSE interpolate_scan(pts, time, 1)

\* tstop.unwrap_or_else(|| last recorded time, or 0.0 for an empty result)
sample_tstop(pts, c) ==
    IF c.tstop # None THEN c.tstop[1]
    ELSE IF pts = <<>> THEN 0 ELSE pts[Len(pts)].time

\* while t <= tstop + tstep * 0.001, in thousandths of a tick
sample_continues(pts, c, time) ==
    1000 * time <= 1000 * sample_tstop(pts, c) + c.tstep

Waveforms == {"ramp", "pulse"}

waveform(w, j) == IF w = "ramp" THEN 10 * j ELSE IF j % 2 = 1 THEN 7 ELSE -3

\* What a fixed-step driver records for n steps of size step:
\* the point of step j carries t = (j as f64) * h.
fixed_step_points(step, n, w) ==
    [j \in 1 .. n + 1 |-> TimePoint(fl_round((j - 1) * step), waveform(w, j - 1))]

\* The stored results: fixed-step runs, the empty result and a result with
\* uneven spacing (step 0: no uniform grid).
StoredResults ==
    {[points |-> fixed_step_points(step, n, w), step |-> step] :
        step \in {1, 2, 5}, n \in 0 .. MaxPoints - 1, w \in Waveforms}
    \cup {[points |-> <<>>, step |-> 0],
          [points |-> <<TimePoint(0, 0), TimePoint(3, 30), TimePoint(10, 10)>>,
           step |-> 0]}

QueryTimes(pts) ==
    {0} \cup UNION {{pts[j].time - 1, pts[j].time, pts[j].time + 1} :
                        j \in 1 .. Len(pts)}

ResultCalls(res) ==
    {[op |-> "interpolate_at", time |-> q, tstep |-> 0, tstart |-> None,
      tstop |-> None] : q \in QueryTimes(res.points)}
    \cup [op : {"sample_at_times"}, time : {0},
          tstep : {-1, 0, 1, 2, 5},
          tstart : {None, Some(0), Some(2), Some(40)},
          tstop : {None, Some(1), Some(4)}]

ResultInit ==
    /\ \E res \in StoredResults :
        /\ r_points = res.points
        /\ r_step = res.step
        /\ r_call \in ResultCalls(res)
    /\ r_pc = "ready"
    /\ r_answer = None
    /\ s_t = 0
    /\ s_passes = 0
    /\ sampled_points = <<>>

ResultIdle ==
    /\ r_points = <<>>
    /\ r_step = 0
    /\ r_call = [op |-> "none", time |-> 0, tstep |-> 0, tstart |-> None,
                 tstop |-> None]
    /\ r_pc = "idle"
    /\ r_answer = None
    /\ s_t = 0
    /\ s_passes = 0
    /\ sampled_points = <<>>

\* interpolate_at(time)
InterpolateAt ==
    /\ r_pc = "ready"
    /\ r_call.op = "interpolate_at"
    /\ r_answer' = interpolate_at(r_points, r_call.time)
    /\ r_pc' = "done"
    /\ UNCHANGED <<r_points, r_step, r_call, s_t, s_passes, sampled_points>>
    /\ UNCHANGED nonResultVars

\* sample_at_times up to the loop: let mut t = tstart.unwrap_or(0.0)
SampleStart ==
    /\ r_pc = "ready"
    /\ r_call.op = "sample_at_times"
    /\ s_t' = (IF r_call.tstart # None THEN r_call.tstart[1] ELSE 0)
    /\ sampled_points' = <<>>
    /\ r_pc' = "sampling"
    /\ UNCHANGED <<r_points, r_step, r_call, r_answer, s_passes>>
    /\ UNCHANGED nonResultVars

\* One pass of the while loop: push the interpolated point, then t += tstep.
SampleStep ==
    /\ r_pc = "sampling"
    /\ sample_continues(r_points, r_call, s_t)
    /\ s_passes < MaxSamples
    /\ LET solution == interpolate_at(r_points, s_t)
       IN  sampled_points' = (IF solution # None
                                THEN Append(sampled_points,
                                            TimePoint(s_t, solution[1]))
                                ELSE sampled_points)
    /\ s_t' = fl_add(s_t, r_call.tstep)
    /\ s_passes' = s_passes + 1
    /\ UNCHANGED <<r_pc, r_points, r_step, r_call, r_answer>>
    /\ UNCHANGED nonResultVars

\* The loop condition fails: the sampled result is returned.
SampleReturn ==
    /\ r_pc = "sampling"
    /\ ~sample_continues(r_points, r_call, s_t)
    /\ r_pc' = "done"
    /\ UNCHANGED <<r_points, r_step, r_call, r_answer, s_t, s_passes,
                   sampled_points>>
    /\ UNCHANGED nonResultVars

ResultNext ==
    \/ InterpolateAt
    \/ SampleStart
    \/ SampleStep
    \/ SampleReturn

(***************************************************************************)
(* compact_active and expand_active (convergence.rs): the flattened data   *)
(* of a cohort, item_size values per point, points numbered from 0.        *)
(***************************************************************************)
RECURSIVE compact_active(_, _, _)
\* for &idx in active_indices: result.extend_from_slice(&data[offset..offset + item_size])
compact_active(data, item_size, active_indices) ==
    IF active_indices = <<>> THEN <<>>
    ELSE LET offset == Head(active_indices) * item_size
         IN  SubSeq(data, offset + 1, offset + item_size)
                \o compact_active(data, item_size, Tail(active_indices))

RECURSIVE expand_from(_, _, _, _, _)
\* The copy loop of expand_active from position compact_idx of active_indices.
expand_from(result, compacted, item_size, active_indices, compact_idx) ==
    IF compact_idx >= Len(active_indices) THEN result
    ELSE LET src_offset == compact_idx * item_size
             dst_offset == active_indices[compact_idx + 1] * item_size
             copied == [j \in 1 .. Len(result) |->
                          IF j > dst_offset /\ j <= dst_offset + item_size
                          THEN compacted[src_offset + (j - dst_offset)]
                          ELSE result[j]]
         IN  expand_from(copied, compacted, item_size, active_indices,
                         compact_idx + 1)

\* A mutation of expand_active that leaves the active items where the
\* compacted array holds them.
expand_active_dense(compacted, item_size, active_indices, batch_size, default) ==
    [j \in 1 .. batch_size * item_size |->
        IF j <= Len(compacted) THEN compacted[j] ELSE default]

\* let mut result = vec![default; batch_size * item_size]; then the copy loop
expand_active(compacted, item_size, active_indices, batch_size, default) ==
    expand_from([j \in 1 .. batch_size * item_size |-> default],
                compacted, item_size, active_indices, 0)

\* Lists of distinct point indices below batch_size.
IndexLists(batch_size) ==
    {s \in UNION {[1 .. n -> 0 .. batch_size - 1] : n \in 0 .. batch_size} :
        \A i, j \in DOMAIN s : i # j => s[i] # s[j]}

\* The data of a cohort: every value its own, or values that repeat.
cohort_data(pattern, len) ==
    [j \in 1 .. len |-> IF pattern = "distinct" THEN j ELSE j % 2]

CompactCalls ==
    UNION {[data : {cohort_data(pattern, batch_size * item_size) :
                        pattern \in {"distinct", "repeating"}},
            item_size : {item_size},
            active_indices : IndexLists(batch_size),
            batch_size : {batch_size},
            default : {-1, 0}] :
        batch_size \in 0 .. MaxCohort, item_size \in 0 .. MaxItemSize}

CompactInit ==
    /\ compact_call \in CompactCalls
    /\ compact_pc = "ready"
    /\ compacted_data = <<>>
    /\ expanded_data = <<>>

CompactIdle ==
    /\ compact_call = [data |-> <<>>, item_size |-> 0, active_indices |-> <<>>,
                       batch_size |-> 0, default |-> 0]
    /\ compact_pc = "idle"
    /\ compacted_data = <<>>
    /\ expanded_data = <<>>

\* compact_active(data, item_size, active_indices)
CompactActive ==
    /\ compact_pc = "ready"
    /\ compacted_data' = compact_active(compact_call.data, compact_call.item_size,
                                        compact_call.active_indices)
    /\ compact_pc' = "compacted"
    /\ UNCHANGED <<compact_call, expanded_data>>
    /\ UNCHANGED nonCompactVars

\* expand_active(compacted, item_size, active_indices, batch_size, default)
ExpandActive ==
    /\ compact_pc = "compacted"
    /\ expanded_data' = expand_active(compacted_data, compact_call.item_size,
                                      compact_call.active_indices,
                                      compact_call.batch_size, compact_call.default)
    /\ compact_pc' = "done"
    /\ UNCHANGED <<compact_call, compacted_data>>
    /\ UNCHANGED nonCompactVars

CompactNext ==
    \/ CompactActive
    \/ ExpandActive

(***************************************************************************)
(* Specifications                                                          *)
(***************************************************************************)
\* Each specification starts one component; the others stay idle.
InitTracker == TrackerInit /\ AdaptiveIdle /\ CacheIdle /\ GmresIdle /\ BatchIdle
    /\ SweepIdle
    /\ FixedIdle
    /\ ResultIdle
    /\ CompactIdle

InitAdaptive == AdaptiveInit /\ TrackerIdle /\ CacheIdle /\ GmresIdle /\ BatchIdle
    /\ SweepIdle
    /\ FixedIdle
    /\ ResultIdle
    /\ CompactIdle

InitCache == CacheInit /\ TrackerIdle /\ AdaptiveIdle /\ GmresIdle /\ BatchIdle
    /\ SweepIdle
    /\ FixedIdle
    /\ ResultIdle
    /\ CompactIdle

InitGmres == GmresInit /\ TrackerIdle /\ AdaptiveIdle /\ CacheIdle /\ BatchIdle
    /\ SweepIdle
    /\ FixedIdle
    /\ ResultIdle
    /\ CompactIdle

InitBatch == BatchInit /\ TrackerIdle /\ AdaptiveIdle /\ CacheIdle /\ GmresIdle
    /\ SweepIdle
    /\ FixedIdle
    /\ ResultIdle
    /\ CompactIdle

SpecTracker == InitTracker /\ [][TrackerNext]_vars

SpecAdaptive == InitAdaptive /\ [][AdaptiveNext]_vars

SpecCache == InitCache /\ [][CacheNext]_vars

\* A solve is one sequential call: it keeps running until it returns.
SpecGmres == InitGmres /\ [][GmresNext]_vars /\ WF_vars(GmresNext)

SpecBatch == InitBatch /\ [][BatchNext]_vars

InitSweep ==
    /\ SweepInit /\ TrackerIdle /\ AdaptiveIdle /\ CacheIdle /\ GmresIdle
    /\ BatchIdle
    /\ FixedIdle
    /\ ResultIdle
    /\ CompactIdle

SpecSweep == InitSweep /\ [][SweepNext]_vars

\* The transient engine: a call of any of its three entry points.
InitTransient ==
    /\ \/ (AdaptiveInit /\ FixedIdle)
       \/ (AdaptiveIdle /\ FixedInit)
    /\ TrackerIdle /\ CacheIdle /\ GmresIdle /\ BatchIdle /\ SweepIdle
    /\ ResultIdle
    /\ CompactIdle

SpecTransient == InitTransient /\ [][AdaptiveNext \/ FixedNext]_vars

\* A stored transient result: one interpolate_at or sample_at_times call.
InitResult ==
    /\ ResultInit
    /\ TrackerIdle /\ AdaptiveIdle /\ CacheIdle /\ GmresIdle /\ BatchIdle
    /\ SweepIdle /\ FixedIdle
    /\ CompactIdle

SpecResult == InitResult /\ [][ResultNext]_vars

\* Compaction of a cohort's data and its expansion.
InitCompact ==
    /\ CompactInit
    /\ TrackerIdle /\ AdaptiveIdle /\ CacheIdle /\ GmresIdle /\ BatchIdle
    /\ SweepIdle /\ FixedIdle /\ ResultIdle

SpecCompact == InitCompact /\ [][CompactNext]_vars

(***************************************************************************)
(* Claims                                                                  *)
(***************************************************************************)
ActiveEntries == Cardinality({i \in Points : status[i] = "Active"})

\* C1: after any sequence of tracker operations the cached active_count
\* equals the number of points whose status is Active.
C1_ActiveCountMatches == active_count = ActiveEntries

\* C1 witness: a point has left Active through each kind of operation and
\* the count was lowered.
C1_Witness ==
    /\ active_count = 0
    /\ \E i \in Points : status[i] = "Converged"
    /\ \E i \in Points : status[i] = "Failed" /\ iterations[i] >= 1

\* C2: Converged, Failed and Singular are terminal; a status only ever
\* changes from Active to Converged, Failed or Singular.
C2_TerminalStatuses ==
    [][\A i \in Points :
          /\ status[i] # "Active" => status'[i] = status[i]
          /\ status'[i] # status[i] =>
                status[i] = "Active" /\ status'[i] \in {"Converged", "Failed", "Singular"}]_vars

\* C2 witness: mark_failed was just applied to a point that had already
\* converged, and the point is still Converged.
C2_Witness ==
    \E i \in Points : status[i] = "Converged" /\ last_op = <<"mark_failed", i>>


\* C3 (as claimed): every step that solve_transient_adaptive accepts has a
\* maximum per-element LTE estimate of at most max(abstol, reltol * max|ref|).
C3_AcceptedStepWithinTol ==
    last_step.kind = "accepted" => last_step.max_lte <= last_step.tol

\* C4 (as claimed): when a step's LTE exceeds the tolerance and h has
\* reached h_min, the call reports failure instead of accepting the step.
C4_FailureReportedAtHmin ==
    (last_step.kind \in {"accepted", "rejected"}
        /\ last_step.max_lte > last_step.tol
        /\ last_step.h <= params.h_min)
    => (last_step.kind # "accepted" /\ a_result = "Err")

\* C5 (as claimed): of the solve_batch calls that find the cache empty,
\* exactly one writes the cache; no second call installs a factorisation
\* while the cache still holds the first.
C5_SingleInstaller == installs <= 1

\* C6 (as claimed): once the cache holds a factorisation for order n, the
\* cached order changes only by being cleared (reset_cache); no solve_batch
\* call replaces it with another order.
C6_CachedOrderStable ==
    [][(cached.expected_size # None /\ cached'.expected_size # cached.expected_size)
        => cached'.expected_size = None]_vars

\* C7: every GMRES solve returns, and it carries out at most max_iter
\* Arnoldi iterations in total across all its restart cycles.
C7_GmresBoundedByMaxIter ==
    /\ [](arnoldi <= config.max_iter)
    /\ <>(g_pc = "done" /\ g_result.returned)

\* C7 witness: a solve that went through a restart has used up its whole
\* iteration budget and has returned without converging.
C7_Witness ==
    /\ g_pc = "done"
    /\ ~g_result.converged
    /\ restart_cycle >= 1
    /\ arnoldi = config.max_iter
    /\ config.max_iter >= 2

\* The systems of the call that fail: a zero pivot or a non-finite solution.
FailingSystems ==
    {i \in 0 .. call.batch_size - 1 :
        call.systems[i + 1] \in {"zero_pivot", "nonfinite"}}

InSeq(x, seq) == \E j \in 1 .. Len(seq) : seq[j] = x

\* C8 (as claimed): solve_batch with batch_size = 0 and empty buffers
\* returns Ok with an empty result, for every backend and every order n.
C8_EmptyBatchIsOk ==
    (b_pc = "done" /\ call.batch_size = 0 /\ call.lens_ok /\ call.resources_ok)
    => (b_result = Ok /\ b_solutions = <<>> /\ singular_indices = <<>>)

\* C9 (as claimed): in a returned result every system with a zero pivot or
\* a non-finite solution has its index in singular_indices and an all-zero
\* solution slot (backends whose gather code is host code).
C9_FailingSystemsMarkedSingular ==
    (b_pc = "done" /\ b_result = Ok /\ call.backend \in HostBackends)
    => \A i \in FailingSystems :
          /\ InSeq(i, singular_indices)
          /\ b_solutions[i + 1] = slot(call.n, "zero")

\* C10 (as claimed): a failing system does not abort the batch: the call
\* returns Ok unless the backend itself reports an error, every failing
\* system is listed in singular_indices, and every other system keeps its
\* own solution.
C10_FailuresCollectedNotAborting ==
    (b_pc = "done" /\ call.lens_ok /\ call.batch_size > 0
        /\ call.backend \in HostBackends)
    => /\ b_result = Ok \/ b_result = Err("Backend")
       /\ b_result = Ok =>
            /\ \A i \in FailingSystems : InSeq(i, singular_indices)
            /\ \A i \in 0 .. call.batch_size - 1 :
                  call.systems[i + 1] = "regular"
                  => b_solutions[i + 1] = slot(call.n, "x")

\* C11 (as claimed): whenever the created solver's should_use_gpu(n, B) is
\* false for the cohort, the returned result reports used_gpu = false and
\* backend_used = Cpu.
C11_FallbackReportsCpu ==
    (s_pc = "done" /\ sweep_result.kind = "Ok"
        /\ ~should_use_gpu(sweep, sweep.system_size, sweep.total_count))
    => (~sweep_result.used_gpu /\ sweep_result.backend_used = "Cpu")

\* C12 (as claimed): an adaptive run makes finitely many step attempts.
\* Every accepted step but the last covers at least h_min of the interval
\* [0, tstop], so a run accepts at most tstop / h_min + 1 steps.
C12_FinitelyManyAttempts ==
    total_steps - rejected_steps <= params.tstop \div params.h_min + 1

\* C13: a rejected step leaves the simulation time, the recorded points and
\* the (v_prev, i_prev) history of every capacitor and inductor exactly as
\* they were before the attempt.
C13_RejectionRestoresHistories ==
    [][rejected_steps' = rejected_steps + 1
        => (/\ t' = t
            /\ points' = points
            /\ caps' = caps
            /\ inds' = inds)]_vars

\* A step was rejected, with a smaller step to follow, after an accepted
\* step had left a non-zero history in the capacitor.
C13_Witness ==
    /\ last_step.kind = "rejected"
    /\ h < last_step.h
    /\ Len(points) > 1
    /\ caps[1].v_prev # 0
    /\ caps[1].i_prev # caps[1].v_prev

\* C14: the step size of every attempt lies in [h_min, h_max], unless the
\* attempt was shortened to tstop - t and ends on tstop.
C14_AttemptedStepInRange ==
    [][(total_steps' = total_steps + 1 \/ (a_result = "none" /\ a_result' = "Err"))
        => LET hs == last_step'.h
           IN  \/ (params.h_min <= hs /\ hs <= params.h_max)
               \/ (hs = fl_sub(params.tstop, t) /\ fl_add(t, hs) = params.tstop)]_vars

\* The loop attempted a step below h_min that was shortened to reach tstop,
\* after an attempt above h_min had been rejected.
C14_Witness ==
    /\ last_step.kind = "accepted"
    /\ last_step.h < params.h_min
    /\ rejected_steps > 0
    /\ t = params.tstop

C16_ColumnsFullyRotated ==
    g_pc = "update" => \A j \in 1 .. k : rotated[j]

\* C17: with TR-BDF2 every completed time step makes exactly two linear
\* solves, in the order trapezoidal solve over gamma*h, intermediate history
\* update, BDF2 solve, full history update, and records exactly one point.
C17_TrBdf2TwoSolvesPerStep ==
    [][(f_call.method = "TrBdf2" /\ f_step' = f_step + 1)
        => (/\ f_solves' = f_solves + 2
            /\ f_ops' = <<"solve_trap_gamma", "update_trbdf2_intermediate",
                          "solve_bdf2", "update", "push_point">>
            /\ Len(f_points') = Len(f_points) + 1
            /\ Len(f_points') = f_step' + 1)]_vars

\* A TR-BDF2 run of two steps has returned Ok after four solves.
C17_Witness ==
    /\ f_call.method = "TrBdf2"
    /\ f_pc = "done"
    /\ f_result.kind = "Ok"
    /\ f_step = 2
    /\ f_solves = 4
    /\ Len(f_result.points) = 3

\* C18 (as claimed): a GMRES solve that hits the iteration cap during
\* solve_transient_dispatched ends the call with a NonConverged error, and no
\* recorded point holds an unconverged iterate.
C18_GmresCapReachesCaller ==
    /\ \A j \in 1 .. Len(f_points) : f_points[j].solution # "unconverged_iterate"
    /\ InSeq("hit_cap", f_outcomes)
        => (f_pc = "done" /\ f_result.kind = "Err" /\ f_result.error = "NonConverged")

\* C19: a linear solve that fails with SingularMatrix ends the call with
\* that error and without any points, in the fixed-step entry points and in
\* solve_transient_adaptive, and nothing is attempted after the error.
C19_SingularMatrixIsFatal ==
    /\ [](InSeq("SingularMatrix", f_outcomes)
            => (/\ f_pc = "done"
                /\ f_result = [kind |-> "Err", error |-> "SingularMatrix",
                               points |-> <<>>]))
    /\ [](last_step.kind = "solve_error" => (a_pc = "done" /\ a_result = "Err"))
    /\ [][(f_result.kind = "Err" \/ a_result = "Err")
            => UNCHANGED <<fixedVars, adaptiveVars>>]_vars

\* The BDF2 solve of the second TR-BDF2 step met a singular matrix after
\* three successful solves.
C19_Witness ==
    /\ f_call.method = "TrBdf2"
    /\ f_step = 1
    /\ f_solves = 4
    /\ f_outcomes = <<"solved", "SingularMatrix">>
    /\ f_result.error = "SingularMatrix"

\* C20: with an iteration limit m >= 1, increment_iteration and
\* increment_all_active turn an Active point into Failed exactly when the
\* increment brings its count to m; a round of increment_all_active counts
\* every Active point once, so no point is Active with m increments and
\* all_finished() holds once every point has them.
C20_FailedExactlyAtLimit ==
    /\ [](max_iterations >= 1
            => /\ \A i \in Points : status[i] = "Active" => iterations[i] < max_iterations
               /\ (\A i \in Points : iterations[i] >= max_iterations) => active_count = 0)
    /\ [][(max_iterations >= 1
            /\ last_op'[1] \in {"increment_iteration", "increment_all_active"})
            => \A i \in Points :
                /\ (status[i] = "Active" /\ status'[i] = "Failed")
                    <=> (/\ status[i] = "Active"
                         /\ iterations'[i] = iterations[i] + 1
                         /\ iterations'[i] = max_iterations)
                /\ (last_op'[1] = "increment_all_active" /\ status[i] = "Active")
                    => iterations'[i] = iterations[i] + 1]_vars

\* Two rounds of increment_all_active on a tracker with limit 2 have failed
\* every point, and the tracker reports all_finished().
C20_Witness ==
    /\ max_iterations = 2
    /\ last_op = <<"increment_all_active", 0>>
    /\ \A i \in Points : status[i] = "Failed" /\ iterations[i] = 2
    /\ active_count = 0

\* C25: a solve with an all-zero right-hand side returns the zero solution
\* with converged = true and no iteration from the test on b_norm at its
\* entry, before any statement that divides by b_norm.
C25_ZeroRhsReturnsAtEntry ==
    rhs = "zero"
        => /\ g_pc \in {"entry", "done"}
           /\ total_iter = 0
           /\ g_pc = "done"
                => (g_result = GmresResult(TRUE, 0) /\ g_exit = "rhs_zero")

\* A solve with a zero right-hand side and a positive iteration budget has
\* returned.
C25_Witness ==
    /\ rhs = "zero"
    /\ g_pc = "done"
    /\ g_result.converged
    /\ config.max_iter >= 1

\* C28 (as claimed): the iteration count of a returned GMRES result is at
\* most config.max_iter.
C28_ReportedIterationsWithinCap ==
    g_result.returned => g_result.iterations <= config.max_iter

\* C29 (as claimed): the iteration count of a point that is no longer Active
\* is not changed by any tracker operation.
C29_FinishedCountFrozen ==
    [][\A i \in Points : status[i] # "Active" => iterations'[i] = iterations[i]]_vars

\* C26 (as claimed): every recorded point was computed from the system whose
\* sources were stamped at the point's own time, in the fixed-step drivers
\* and in the adaptive driver.
C26_StampedAtRecordedTime ==
    /\ \A j \in 2 .. Len(f_points) : f_points[j].stamped = f_points[j].time
    /\ \A j \in 2 .. Len(points) : stamp_times[j] = points[j]

\* C27 (as claimed): every recorded time lies in [0, tstop] and the recorded
\* times are strictly increasing, for all three drivers.
C27_TimesWithinTstop ==
    /\ \A j \in 1 .. Len(f_points) :
        /\ 0 <= f_points[j].time /\ f_points[j].time <= f_call.tstop
        /\ j > 1 => f_points[j - 1].time < f_points[j].time
    /\ \A j \in 1 .. Len(points) :
        /\ 0 <= points[j] /\ points[j] <= params.tstop
        /\ j > 1 => points[j - 1] < points[j]

StrictlyIncreasing(pts) ==
    \A j \in 1 .. Len(pts) - 1 : pts[j].time < pts[j + 1].time

C23_NoneOutsideRange ==
    (/\ r_pc = "done"
     /\ r_call.op = "interpolate_at"
     /\ r_points # <<>>
     /\ \/ r_call.time < r_points[1].time
        \/ r_call.time > r_points[Len(r_points)].time)
    => r_answer = None

\* C24 (as claimed): resampling a result at its own recorded times (the
\* step it was recorded with, from the first to the last recorded time)
\* returns the same number of points, the same times and the same solutions.
C24_ResampleAtOwnTimesIsIdentity ==
    (/\ r_pc = "done"
     /\ r_call.op = "sample_at_times"
     /\ r_step > 0
     /\ r_call.tstep = r_step
     /\ r_call.tstart = None
     /\ r_call.tstop = None)
    => sampled_points = r_points

\* C30 (as claimed): sample_at_times terminates for every argument
\* combination: every pass of its loop moves the sample time forward,
\* towards the bound that ends the loop.
C30_SamplingAdvances ==
    [][(r_pc = "sampling" /\ s_passes' = s_passes + 1) => s_t' > s_t]_vars

\* C21: for distinct in-range active indices, expand_active applied to the
\* output of compact_active holds every active point's items unchanged at
\* the point's original position and the fill value at every inactive
\* position, and compact_active keeps the active points in the order of
\* the index list.
C21_CompactExpandRoundTrip ==
    LET c == compact_call
        n == c.item_size
    IN  /\ compact_pc \in {"compacted", "done"}
            => /\ Len(compacted_data) = Len(c.active_indices) * n
               /\ \A j \in 1 .. Len(c.active_indices) : \A e \in 1 .. n :
                    compacted_data[(j - 1) * n + e]
                        = c.data[c.active_indices[j] * n + e]
        /\ compact_pc = "done"
            => /\ Len(expanded_data) = c.batch_size * n
               /\ \A q \in 0 .. c.batch_size - 1 : \A e \in 1 .. n :
                    expanded_data[q * n + e]
                        = (IF \E j \in DOMAIN c.active_indices :
                                    c.active_indices[j] = q
                           THEN c.data[q * n + e]
                           ELSE c.default)

\* A round trip finished on a cohort with an inactive point, whose active
\* points were listed out of their original order.
C21_Witness ==
    /\ compact_pc = "done"
    /\ compact_call.item_size = 2
    /\ compact_call.active_indices = <<2, 0>>
    /\ compact_call.batch_size = 3
    /\ expanded_data = <<1, 2, compact_call.default, compact_call.default, 5, 6>>
    /\ compacted_data = <<5, 6, 1, 2>>

=============================================================================
